---- MODULE Spec2Model ----
(***************************************************************************)
(* Model of the consensus session registry (src/src/parsec.rs, ParsecMap   *)
(* and ParsecSizeCounter).  The agreement engine (Parsec) is an external   *)
(* collaborator; it is modelled from its interface as a small state        *)
(* machine whose accept/reject decisions are nondeterministic inputs.      *)
(* Second part: the attestation quorum cache                               *)
(* (src/src/section_list_cache.rs, SectionListCache), specification        *)
(* CacheSpec.                                                              *)
(***************************************************************************)
EXTENDS Integers, FiniteSets, Sequences, TLC

\* the registry: ParsecMap's fields, and two history variables
VARIABLES map, size_counter, sent, ret

\* the cache: SectionListCache's fields, the size of our section (the
\* our_section_size every call passes), and four history variables
VARIABLES signatures, signed_by, lists_cache, cret, section_size, scen, calls,
          signers

rvars == <<map, size_counter, sent, ret>>

cvars == <<signatures, signed_by, lists_cache, cret, section_size, scen,
          calls, signers>>

vars == <<rvars, cvars>>

\* ---- bounds of the model -------------------------------------------------
\* epochs (section versions) range over 0..MaxEpoch
MaxEpoch == 1
\* the engines accept at most MaxGraph gossip messages altogether
MaxGraph == 1
\* at most MaxBytes bytes of newest-epoch traffic between two insertions
MaxBytes == 102

\* ---- program constants ---------------------------------------------------
PARSEC_SIZE_LIMIT == 100

Epochs == 0..MaxEpoch
\* versions a message can carry: every epoch and one beyond the largest
MsgVersions == 0..(MaxEpoch + 1)
\* serialised sizes of the requests and responses that arrive
MsgSizes == {PARSEC_SIZE_LIMIT \div 2, PARSEC_SIZE_LIMIT \div 2 + 1}
\* network events: one that converts to an observation, one that does not
Events == {"Online", "Malformed"}

None == <<>>
Some(x) == <<x>>

\* ---- the agreement engine (one instance per epoch) -----------------------
\* graph: gossip messages accepted; voted: our observations in voting order;
\* polled: how many of them were already returned as blocks
from_genesis == [genesis |-> TRUE, graph |-> 0, voted |-> <<>>, polled |-> 0]

from_existing == [genesis |-> FALSE, graph |-> 0, voted |-> <<>>, polled |-> 0]

\* Parsec::handle_request / handle_response: an accepted message extends the
\* gossip graph (whether it is accepted is the engine's decision, an input)
Parsec_accept(p) == [p EXCEPT !.graph = @ + 1]

\* Parsec::vote_for: Err on a duplicate vote
Parsec_vote_ok(p, obs) == \A i \in 1..Len(p.voted) : p.voted[i] # obs

Parsec_vote_for(p, obs) ==
    IF Parsec_vote_ok(p, obs) THEN [p EXCEPT !.voted = Append(@, obs)] ELSE p

\* Parsec::poll: the next agreed block, if any, and the engine afterwards
Parsec_poll_block(p) ==
    IF p.polled < Len(p.voted) THEN Some(p.voted[p.polled + 1]) ELSE None

Parsec_poll(p) ==
    IF p.polled < Len(p.voted) THEN [p EXCEPT !.polled = @ + 1] ELSE p

\* chain::NetworkEvent::into_obs
into_obs_ok(event) == event # "Malformed"

into_obs(event) == [opaque |-> event]

\* ---- ParsecSizeCounter ---------------------------------------------------
increase_size(counter, size) == counter + size

needs_pruning_at_limit(counter) == counter >= PARSEC_SIZE_LIMIT

needs_pruning(counter) == counter > PARSEC_SIZE_LIMIT

\* ---- ParsecMap -----------------------------------------------------------
create(isMember) == IF isMember THEN from_genesis ELSE from_existing

MaxOf(S) == CHOOSE x \in S : \A y \in S : y <= x

MinOf(S) == CHOOSE x \in S : \A y \in S : x <= y

last_version_first(m) == IF DOMAIN m # {} THEN MinOf(DOMAIN m) ELSE 0

last_version(m) == IF DOMAIN m # {} THEN MaxOf(DOMAIN m) ELSE 0

\* the condition under which count_size counts a message
counts_any_present(m, msg_version) == msg_version \in DOMAIN m

counts_from_newest_up(m, msg_version) == last_version(m) <= msg_version

counts(m, msg_version) ==
    last_version(m) = msg_version /\ msg_version \in DOMAIN m

count_size(m, counter, size, msg_version) ==
    IF counts(m, msg_version) THEN increase_size(counter, size) ELSE counter

\* the trace! line of count_size
count_size_log(m, msg_version) ==
    IF counts(m, msg_version) THEN <<"Parsec size is now estimated">> ELSE <<>>

Insert(m, k, v) == [e \in DOMAIN m \cup {k} |-> IF e = k THEN v ELSE m[e]]

\* msg_version is the newest epoch of m
IsNewest(m, msg_version) ==
    /\ msg_version \in DOMAIN m
    /\ \A e \in DOMAIN m : e <= msg_version

\* history: bytes of the requests and responses handled with msg_version equal
\* to the newest epoch since the most recent insertion of a session
record_sent(m, total, size, msg_version) ==
    IF IsNewest(m, msg_version) THEN total + size ELSE total

\* gossip messages accepted by the engines of m at the epochs in S
RECURSIVE GraphSum(_, _)
GraphSum(m, S) ==
    IF S = {} THEN 0
    ELSE LET x == CHOOSE y \in S : TRUE IN m[x].graph + GraphSum(m, S \ {x})

TotalGraph(m) == GraphSum(m, DOMAIN m)

\* what the last call was, what it returned and what it logged
Ret(op, version, response, poll, block, log) ==
    [op |-> op, version |-> version, response |-> response,
     poll |-> poll, block |-> block, log |-> log]

\* DirectMessage::ParsecResponse(version, response) and
\* DirectMessage::ParsecRequest(version, request)
ParsecResponse(version, payload) ==
    [type |-> "ParsecResponse", version |-> version, payload |-> payload]

ParsecRequest(version, payload) ==
    [type |-> "ParsecRequest", version |-> version, payload |-> payload]

\* ParsecMap::new: the map holding the genesis session only
new_empty(version, isMember) == <<>>

new(version, isMember) == Insert(<<>>, version, create(isMember))

\* what the last call on the cache was (op, arguments)
CRet(op, prefix, author, list) ==
    [op |-> op, prefix |-> prefix, author |-> author, list |-> list]

\* SectionListCache::new: three empty indices
CacheNew ==
    /\ signatures = <<>>
    /\ signed_by = <<>>
    /\ lists_cache = <<>>
    /\ cret = CRet("new", <<>>, 0, "")
    /\ scen = [state |-> "empty"]
    /\ calls = 0
    /\ signers = {}

Init ==
    /\ \E version \in Epochs, isMember \in BOOLEAN :
        /\ map = new(version, isMember)
        /\ size_counter = 0
        /\ sent = 0
        /\ ret = Ret("new", version, None, FALSE, None, <<>>)
    /\ CacheNew
    /\ section_size = 0

\* ParsecMap::init
init_keeps_counter(version, isMember) ==
    /\ IF version \notin DOMAIN map
       THEN /\ map' = Insert(map, version, create(isMember))
            /\ ret' = Ret("init", version, None, FALSE, None,
                          <<"Init new Parsec">>)
       ELSE /\ map' = map
            /\ ret' = Ret("init", version, None, FALSE, None, <<>>)
    /\ UNCHANGED <<size_counter, sent>>

init_overwrites(version, isMember) ==
    /\ map' = Insert(map, version, create(isMember))
    /\ size_counter' = 0
    /\ sent' = 0
    /\ ret' = Ret("init", version, None, FALSE, None, <<"Init new Parsec">>)

init(version, isMember) ==
    IF version \notin DOMAIN map
    THEN /\ map' = Insert(map, version, create(isMember))
         /\ size_counter' = 0
         /\ sent' = 0
         /\ ret' = Ret("init", version, None, FALSE, None,
                       <<"Init new Parsec">>)
    ELSE /\ UNCHANGED <<map, size_counter, sent>>
         /\ ret' = Ret("init", version, None, FALSE, None, <<>>)

\* the response handle_request returns when the engine accepted the request
response_tagged_newest(m, msg_version) ==
    Some(ParsecResponse(last_version(m), m[msg_version].graph))

response_of(m, msg_version) ==
    Some(ParsecResponse(msg_version, m[msg_version].graph))

\* ParsecMap::handle_request; size is serialised_size(&request), ok is the
\* engine's verdict on the request
handle_request(msg_version, size, ok) ==
    /\ IsNewest(map, msg_version) => sent + size <= MaxBytes
    /\ size_counter' = count_size(map, size_counter, size, msg_version)
    /\ sent' = record_sent(map, sent, size, msg_version)
    /\ IF msg_version \notin DOMAIN map
       THEN /\ map' = map
            /\ ret' = Ret("handle_request", msg_version, None, FALSE, None,
                          count_size_log(map, msg_version))
       ELSE /\ ok => TotalGraph(map) < MaxGraph
            /\ map' = IF ok THEN [map EXCEPT ![msg_version] = Parsec_accept(@)]
                            ELSE map
            /\ ret' = Ret("handle_request", msg_version,
                          IF ok THEN response_of(map', msg_version) ELSE None,
                          last_version(map') = msg_version, None,
                          count_size_log(map, msg_version) \o
                          (IF ok THEN <<>>
                                 ELSE <<"Error handling parsec request">>))

\* ParsecMap::handle_response
handle_response(msg_version, size, ok) ==
    /\ IsNewest(map, msg_version) => sent + size <= MaxBytes
    /\ size_counter' = count_size(map, size_counter, size, msg_version)
    /\ sent' = record_sent(map, sent, size, msg_version)
    /\ IF msg_version \notin DOMAIN map
       THEN /\ map' = map
            /\ ret' = Ret("handle_response", msg_version, None, FALSE, None,
                          count_size_log(map, msg_version))
       ELSE /\ ok => TotalGraph(map) < MaxGraph
            /\ map' = IF ok THEN [map EXCEPT ![msg_version] = Parsec_accept(@)]
                            ELSE map
            /\ ret' = Ret("handle_response", msg_version, None,
                          last_version(map') = msg_version, None,
                          count_size_log(map, msg_version) \o
                          (IF ok THEN <<>>
                                 ELSE <<"Error handling parsec response">>))

\* as create_gossip, but the message is tagged with the newest epoch
create_gossip_tagged_newest(version, ok) ==
    /\ UNCHANGED <<map, size_counter, sent>>
    /\ ret' = Ret("create_gossip", version,
                  IF version \in DOMAIN map /\ ok
                  THEN Some(ParsecRequest(last_version(map), map[version].graph))
                  ELSE None,
                  FALSE, None, <<>>)

\* ParsecMap::create_gossip; ok is the engine's verdict
create_gossip(version, ok) ==
    /\ UNCHANGED <<map, size_counter, sent>>
    /\ ret' = Ret("create_gossip", version,
                  IF version \in DOMAIN map /\ ok
                  THEN Some(ParsecRequest(version, map[version].graph))
                  ELSE None,
                  FALSE, None, <<>>)

\* the session vote_for and poll work on: self.map.values_mut().last()
last_key_first(m) == MinOf(DOMAIN m)

last_key(m) == MaxOf(DOMAIN m)

\* ParsecMap::vote_for
vote_for(event) ==
    /\ IF DOMAIN map = {}
       THEN /\ map' = map
            /\ ret' = Ret("vote_for", -1, None, FALSE, None, <<>>)
       ELSE IF ~into_obs_ok(event)
       THEN /\ map' = map
            /\ ret' = Ret("vote_for", -1, None, FALSE, None,
                          <<"Failed to convert NetworkEvent to Parsec Observation.">>)
       ELSE /\ map' = [map EXCEPT ![last_key(map)] =
                           Parsec_vote_for(@, into_obs(event))]
            /\ ret' = Ret("vote_for", -1, None, FALSE, None,
                          IF Parsec_vote_ok(map[last_key(map)], into_obs(event))
                          THEN <<>> ELSE <<"Parsec vote error">>)
    /\ UNCHANGED <<size_counter, sent>>

\* ParsecMap::poll
poll ==
    /\ IF DOMAIN map = {}
       THEN /\ map' = map
            /\ ret' = Ret("poll", -1, None, FALSE, None, <<>>)
       ELSE /\ map' = [map EXCEPT ![last_key(map)] = Parsec_poll(@)]
            /\ ret' = Ret("poll", -1, None, FALSE,
                          Parsec_poll_block(map[last_key(map)]), <<>>)
    /\ UNCHANGED <<size_counter, sent>>

Next ==
    \/ \E version \in Epochs, isMember \in BOOLEAN :
           init(version, isMember) /\ UNCHANGED cvars
    \/ \E v \in MsgVersions, size \in MsgSizes, ok \in BOOLEAN :
           handle_request(v, size, ok) /\ UNCHANGED cvars
    \/ \E v \in MsgVersions, size \in MsgSizes, ok \in BOOLEAN :
           handle_response(v, size, ok) /\ UNCHANGED cvars
    \/ \E v \in MsgVersions, ok \in BOOLEAN :
           create_gossip(v, ok) /\ UNCHANGED cvars
    \/ \E event \in Events : vote_for(event) /\ UNCHANGED cvars
    \/ poll /\ UNCHANGED cvars

Spec == Init /\ [][Next]_vars

\* ---- SectionListCache ----------------------------------------------------
\* ---- bounds of the cache model
\* authors (PublicInfo) are 1..MaxAuthor
MaxAuthor == 3
\* a run makes at most MaxCalls calls on the cache
MaxCalls == 4

\* ---- program constants: the quorum fraction
QUORUM_NUMERATOR == 2

QUORUM_DENOMINATOR == 3

Authors == 1..MaxAuthor
\* unversioned prefixes, as bit sequences: the root and its two children
Prefixes == {<<>>, <<0>>, <<1>>}
\* versions a Prefix can carry
PrefixVersions == {0, 1}
SectionLists == {"L1", "L2"}
Signatures == {"sig"}
\* sizes of our section: all authors but one are members
SectionSizes == {MaxAuthor - 1}

\* Prefix::unversioned
unversioned(prefix) == prefix.bits

\* Prefix::is_compatible: one prefix is an ancestor of the other (or equal)
is_compatible(p, q) ==
    LET n == IF Len(p) <= Len(q) THEN Len(p) ELSE Len(q)
    IN  SubSeq(p, 1, n) = SubSeq(q, 1, n)

\* PublicInfo::name
name(pub_info) == [xor |-> pub_info]

XorNames == {name(a) : a \in Authors}

\* HashMap::remove and restriction of a map to a set of keys
Remove(m, k) == [x \in DOMAIN m \ {k} |-> m[x]]

Restrict(m, S) == [x \in DOMAIN m \cap S |-> m[x]]

\* the cache as a value
Cache(sigs, by, lc) == [signatures |-> sigs, signed_by |-> by, lists_cache |-> lc]

\* as remove_from_signatures, but no signature is removed
remove_from_signatures_skipped(sigs, lists, author) == sigs

\* removal of author's signature from every (prefix, list) pair of lists
\* (lines 53-59 and 175-179)
remove_from_signatures(sigs, lists, author) ==
    [p \in DOMAIN sigs |->
        [l \in DOMAIN sigs[p] |->
            IF p \in DOMAIN lists /\ lists[p] = l
            THEN Remove(sigs[p][l], author)
            ELSE sigs[p][l]]]

\* as prune, but section lists with no signature are kept
prune_keep_empty_lists(c) ==
    LET to_remove == {p \in DOMAIN c.signatures : DOMAIN c.signatures[p] = {}}
    IN  Cache(Restrict(c.signatures, DOMAIN c.signatures \ to_remove),
              Restrict(c.signed_by,
                       {a \in DOMAIN c.signed_by : DOMAIN c.signed_by[a] # {}}),
              Restrict(c.lists_cache, DOMAIN c.lists_cache \ to_remove))

\* SectionListCache::prune
prune(c) ==
    LET pruned == [p \in DOMAIN c.signatures |->
                      Restrict(c.signatures[p],
                               {l \in DOMAIN c.signatures[p] :
                                    DOMAIN c.signatures[p][l] # {}})]
        to_remove == {p \in DOMAIN pruned : DOMAIN pruned[p] = {}}
    IN  Cache(Restrict(pruned, DOMAIN pruned \ to_remove),
              Restrict(c.signed_by,
                       {a \in DOMAIN c.signed_by : DOMAIN c.signed_by[a] # {}}),
              Restrict(c.lists_cache, DOMAIN c.lists_cache \ to_remove))

\* as is_quorum, without the numerator
is_quorum_no_numerator(sig_count, our_section_size) ==
    sig_count * QUORUM_DENOMINATOR > our_section_size

\* as is_quorum, with numerator and denominator exchanged
is_quorum_swapped(sig_count, our_section_size) ==
    sig_count * QUORUM_NUMERATOR > our_section_size * QUORUM_DENOMINATOR

\* quorum test of update_lists_cache
is_quorum(sig_count, our_section_size) ==
    sig_count * QUORUM_DENOMINATOR > our_section_size * QUORUM_NUMERATOR

SigCount(m, l) == Cardinality(DOMAIN m[l])

\* as most_signed, with the entries sorted by ascending signature count
least_signed(m) ==
    {l \in DOMAIN m : \A k \in DOMAIN m : SigCount(m, l) <= SigCount(m, k)}

\* the lists that can come first when the entries of m are sorted by
\* descending signature count
most_signed(m) ==
    {l \in DOMAIN m : \A k \in DOMAIN m : SigCount(m, k) <= SigCount(m, l)}

\* the ways update_lists_cache can pick the first entry for every prefix
FirstEntries(sigs) ==
    LET ps == {p \in DOMAIN sigs : DOMAIN sigs[p] # {}}
    IN  {f \in [ps -> SectionLists] : \A p \in ps : f[p] \in most_signed(sigs[p])}

\* as update_lists_cache, but an entry once cached is never replaced
update_lists_cache_once(c, our_section_size, first) ==
    Cache(c.signatures, c.signed_by,
          [p \in DOMAIN c.lists_cache \cup
                 {q \in DOMAIN first :
                      is_quorum(SigCount(c.signatures[q], first[q]), our_section_size)} |->
              IF p \in DOMAIN c.lists_cache
              THEN c.lists_cache[p]
              ELSE <<first[p], c.signatures[p][first[p]]>>])

\* SectionListCache::update_lists_cache; first[p] is the entry that sorts first
update_lists_cache(c, our_section_size, first) ==
    Cache(c.signatures, c.signed_by,
          [p \in DOMAIN c.lists_cache \cup
                 {q \in DOMAIN first :
                      is_quorum(SigCount(c.signatures[q], first[q]),
                                our_section_size)} |->
              IF p \in DOMAIN first
                 /\ is_quorum(SigCount(c.signatures[p], first[p]), our_section_size)
              THEN <<first[p], c.signatures[p][first[p]]>>
              ELSE c.lists_cache[p]])

\* as remove_signatures_for_prefix_by, but the prefix itself is left alone
remove_signatures_for_prefix_by_other_prefixes(c, prefix, author) ==
    LET mine == IF author \in DOMAIN c.signed_by THEN c.signed_by[author] ELSE <<>>
        to_remove == Restrict(mine, {p \in DOMAIN mine :
                                         /\ p # unversioned(prefix)
                                         /\ is_compatible(p, unversioned(prefix))})
    IN  prune(Cache(remove_from_signatures(c.signatures, to_remove, author),
                    IF author \in DOMAIN c.signed_by
                    THEN [c.signed_by EXCEPT ![author] =
                             Restrict(@, DOMAIN @ \ DOMAIN to_remove)]
                    ELSE c.signed_by,
                    c.lists_cache))

\* as remove_signatures_for_prefix_by, but only signed_by forgets the author
remove_signatures_for_prefix_by_index_only(c, prefix, author) ==
    LET mine == IF author \in DOMAIN c.signed_by THEN c.signed_by[author] ELSE <<>>
        to_remove == Restrict(mine, {p \in DOMAIN mine : is_compatible(p, unversioned(prefix))})
    IN  prune(Cache(c.signatures,
                    IF author \in DOMAIN c.signed_by
                    THEN [c.signed_by EXCEPT ![author] =
                             Restrict(@, DOMAIN @ \ DOMAIN to_remove)]
                    ELSE c.signed_by,
                    c.lists_cache))

\* as remove_signatures_for_prefix_by, but only for the prefix itself
remove_signatures_for_prefix_by_same_prefix(c, prefix, author) ==
    LET mine == IF author \in DOMAIN c.signed_by THEN c.signed_by[author] ELSE <<>>
        to_remove == Restrict(mine, {p \in DOMAIN mine : p = unversioned(prefix)})
    IN  prune(Cache(remove_from_signatures(c.signatures, to_remove, author),
                    IF author \in DOMAIN c.signed_by
                    THEN [c.signed_by EXCEPT ![author] =
                             Restrict(@, DOMAIN @ \ DOMAIN to_remove)]
                    ELSE c.signed_by,
                    c.lists_cache))

\* SectionListCache::remove_signatures_for_prefix_by
remove_signatures_for_prefix_by(c, prefix, author) ==
    LET mine == IF author \in DOMAIN c.signed_by THEN c.signed_by[author] ELSE <<>>
        to_remove == Restrict(mine, {p \in DOMAIN mine : is_compatible(p, unversioned(prefix))})
    IN  prune(Cache(remove_from_signatures(c.signatures, to_remove, author),
                    IF author \in DOMAIN c.signed_by
                    THEN [c.signed_by EXCEPT ![author] =
                             Restrict(@, DOMAIN @ \ DOMAIN to_remove)]
                    ELSE c.signed_by,
                    c.lists_cache))

\* as record_signature, but signed_by is not told
record_signature_unindexed(c, prefix, pub_info, list, sig) ==
    LET p == unversioned(prefix)
        lists == IF p \in DOMAIN c.signatures THEN c.signatures[p] ELSE <<>>
        sigs == IF list \in DOMAIN lists THEN lists[list] ELSE <<>>
    IN  Cache(Insert(c.signatures, p, Insert(lists, list, Insert(sigs, pub_info, sig))),
              c.signed_by,
              c.lists_cache)

\* the two insertions of add_signature (lines 78-88)
record_signature(c, prefix, pub_info, list, sig) ==
    LET p == unversioned(prefix)
        by == IF pub_info \in DOMAIN c.signed_by THEN c.signed_by[pub_info] ELSE <<>>
        lists == IF p \in DOMAIN c.signatures THEN c.signatures[p] ELSE <<>>
        sigs == IF list \in DOMAIN lists THEN lists[list] ELSE <<>>
    IN  Cache(Insert(c.signatures, p, Insert(lists, list, Insert(sigs, pub_info, sig))),
              Insert(c.signed_by, pub_info, Insert(by, p, list)),
              c.lists_cache)

\* SectionListCache::get_signature_for
get_signature_for(c, prefix, pub_info, list) ==
    LET p == unversioned(prefix)
    IN  IF /\ p \in DOMAIN c.signatures
           /\ list \in DOMAIN c.signatures[p]
           /\ pub_info \in DOMAIN c.signatures[p][list]
        THEN Some(c.signatures[p][list][pub_info])
        ELSE None

\* SectionListCache::get_signatures
get_signatures(c, prefix) ==
    IF unversioned(prefix) \in DOMAIN c.lists_cache
    THEN Some(c.lists_cache[unversioned(prefix)])
    ELSE None

\* the cache now
Now == Cache(signatures, signed_by, lists_cache)

Becomes(c) ==
    /\ signatures' = c.signatures
    /\ signed_by' = c.signed_by
    /\ lists_cache' = c.lists_cache

\* history: whether every call so far was an add_signature for one prefix and
\* one list, each by an author who had not signed before
scen_after_add(prefix, pub_info, list) ==
    IF scen.state = "empty"
    THEN [state |-> "adding", prefix |-> unversioned(prefix), list |-> list]
    ELSE IF /\ scen.state = "adding"
            /\ scen.prefix = unversioned(prefix)
            /\ scen.list = list
            /\ pub_info \notin DOMAIN signed_by
    THEN scen
    ELSE [state |-> "other"]

\* SectionListCache::add_signature
add_signature(prefix, pub_info, list, sig, our_section_size) ==
        /\ \E removed \in {remove_signatures_for_prefix_by(Now, prefix, pub_info)} :
           \E added \in {record_signature(removed, prefix, pub_info, list, sig)} :
           \E first \in FirstEntries(added.signatures) :
               Becomes(update_lists_cache(added, our_section_size, first))
        /\ cret' = CRet("add_signature", unversioned(prefix), pub_info, list)
        /\ scen' = scen_after_add(prefix, pub_info, list)
        /\ signers' = signers \cup {pub_info}

\* SectionListCache::remove_signatures
remove_signatures(xor_name, our_section_size) ==
    LET found == {a \in DOMAIN signed_by : name(a) = xor_name}
    IN  /\ IF found = {}
           THEN UNCHANGED <<signatures, signed_by, lists_cache>>
           ELSE \E pub_info \in found :
                \E removed \in {prune(Cache(
                        remove_from_signatures(signatures, signed_by[pub_info],
                                               pub_info),
                        Remove(signed_by, pub_info),
                        lists_cache))} :
                \E first \in FirstEntries(removed.signatures) :
                    Becomes(update_lists_cache(removed, our_section_size, first))
        /\ cret' = CRet("remove_signatures", <<>>, xor_name.xor, "")
        /\ scen' = [state |-> "other"]
        /\ UNCHANGED signers

CacheInit ==
    /\ map = new(0, TRUE)
    /\ size_counter = 0
    /\ sent = 0
    /\ ret = Ret("new", 0, None, FALSE, None, <<>>)
    /\ CacheNew
    /\ section_size \in SectionSizes

CacheNext ==
    \/ \E bits \in Prefixes, version \in PrefixVersions, pub_info \in Authors,
          list \in SectionLists, sig \in Signatures :
           /\ calls < MaxCalls
           /\ add_signature([bits |-> bits, version |-> version], pub_info,
                            list, sig, section_size)
           /\ calls' = calls + 1
           /\ UNCHANGED <<rvars, section_size>>
    \/ \E xor_name \in XorNames :
           /\ calls < MaxCalls
           /\ remove_signatures(xor_name, section_size)
           /\ calls' = calls + 1
           /\ UNCHANGED <<rvars, section_size>>

CacheSpec == CacheInit /\ [][CacheNext]_vars

\* ---- properties ----------------------------------------------------------
IsHandle(r) == r.op \in {"handle_request", "handle_response"}

Logged(r, line) == \E i \in 1..Len(r.log) : r.log[i] = line

\* what poll would return in registry m: the next block of the newest session
PollResult(m) == {Parsec_poll_block(m[e]) : e \in {x \in DOMAIN m : IsNewest(m, x)}}

\* the sessions of m other than the one at epoch v are the same in n
OthersUnchanged(m, n, v) ==
    /\ DOMAIN n = DOMAIN m
    /\ \A e \in DOMAIN m : e # v => n[e] = m[e]

\* C1: a handle_request or handle_response whose msg_version is not the newest
\* epoch (an older installed epoch, or an epoch without a session, also one
\* above the newest) leaves the size counter unchanged, so needs_pruning()
\* does not become true by it.
C1_NonNewestTrafficNotCounted ==
    [][(IsHandle(ret') /\ ~IsNewest(map, ret'.version))
        => /\ size_counter' = size_counter
           /\ needs_pruning(size_counter') = needs_pruning(size_counter)]_vars

C1_Witness ==
    /\ ret.op = "handle_response"
    /\ ret.version \in DOMAIN map
    /\ ~IsNewest(map, ret.version)
    /\ size_counter = PARSEC_SIZE_LIMIT

\* C2: the size counter is the sum of the sizes of the requests and responses
\* handled with msg_version equal to the newest epoch since the most recent
\* insertion (accepted by the engine or not), and needs_pruning() is true
\* exactly when that sum is strictly greater than PARSEC_SIZE_LIMIT.
C2_CounterIsNewestTraffic ==
    /\ size_counter = sent
    /\ needs_pruning(size_counter) <=> sent > PARSEC_SIZE_LIMIT

C2_Witness ==
    /\ ret.op = "handle_request"
    /\ IsNewest(map, ret.version)
    /\ Logged(ret, "Error handling parsec request")
    /\ sent = PARSEC_SIZE_LIMIT
    /\ ~needs_pruning(size_counter)

\* C3: when init inserts a session for an epoch that was not present, the
\* size counter is zero and needs_pruning() is false right afterwards.
C3_InsertResetsCounter ==
    [][(ret'.op = "init" /\ ret'.version \notin DOMAIN map)
        => /\ size_counter' = 0
           /\ ~needs_pruning(size_counter')]_vars

C3_Witness ==
    /\ ret.op = "init"
    /\ Logged(ret, "Init new Parsec")
    /\ Cardinality(DOMAIN map) > 1
    /\ size_counter = 0

\* C4: init with an epoch that already has a session changes nothing: the set
\* of epochs, every session and the size counter stay as they were.
C4_InitIdempotent ==
    [][(ret'.op = "init" /\ ret'.version \in DOMAIN map)
        => /\ map' = map
           /\ size_counter' = size_counter]_vars

C4_Witness ==
    /\ ret.op = "init"
    /\ ret.log = <<>>
    /\ ret.version \in DOMAIN map
    /\ map[ret.version] \notin {from_genesis, from_existing}
    /\ size_counter > 0

\* C5: the continue-polling flag of handle_request and handle_response is true
\* exactly when msg_version is the newest epoch, whether or not the engine
\* accepted the message.
C5_PollFlagIffNewest ==
    IsHandle(ret) => (ret.poll <=> IsNewest(map, ret.version))

C5_Witness ==
    /\ DOMAIN map = {0, 1}
    /\ ret.op = "handle_request"
    /\ ret.version = 0
    /\ ret.response # None
    /\ ~ret.poll

\* C6: with no session at msg_version, handle_request returns (None, false),
\* handle_response returns false, create_gossip returns None, and the
\* registry (epochs, sessions, size counter) is unchanged.
C6_UnknownEpochDropped ==
    [][(ret'.op \in {"handle_request", "handle_response", "create_gossip"}
        /\ ret'.version \notin DOMAIN map)
        => /\ ret'.response = None
           /\ ~ret'.poll
           /\ map' = map
           /\ size_counter' = size_counter]_vars

C6_Witness ==
    /\ ret.op = "handle_request"
    /\ ret.version \notin DOMAIN map
    /\ ret.version > last_version(map)
    /\ size_counter > 0

\* C7: when the session at msg_version exists, a message the engine rejects
\* yields no response message, the continue-polling flag still depends on the
\* epoch alone, no other session changes, and an accepted request is answered
\* by a response tagged with the request's msg_version.
C7_EngineErrorsSwallowed ==
    [][(IsHandle(ret') /\ ret'.version \in DOMAIN map)
        => /\ OthersUnchanged(map, map', ret'.version)
           /\ ret'.poll <=> IsNewest(map, ret'.version)
           /\ (Logged(ret', "Error handling parsec request")
               \/ Logged(ret', "Error handling parsec response"))
                  => ret'.response = None
           /\ ret'.response # None
                  => /\ ret'.op = "handle_request"
                     /\ ret'.response[1].type = "ParsecResponse"
                     /\ ret'.response[1].version = ret'.version]_vars

C7_Witness ==
    /\ ret.op = "handle_request"
    /\ ret.version \in DOMAIN map
    /\ ~IsNewest(map, ret.version)
    /\ ret.response # None
    /\ ret.response[1].version = ret.version

\* C8: vote_for and poll change and read only the session with the maximum
\* epoch; a vote whose event does not convert to an observation changes no
\* session; a request or response for an older epoch does not change what a
\* following poll returns.
C8_NewestOnlyVotingPolling ==
    [][/\ ret'.op \in {"vote_for", "poll"}
           => /\ DOMAIN map' = DOMAIN map
              /\ \A e \in DOMAIN map : ~IsNewest(map, e) => map'[e] = map[e]
       /\ ret'.op = "poll" => {ret'.block} = PollResult(map)
       /\ (ret'.op = "vote_for"
           /\ Logged(ret', "Failed to convert NetworkEvent to Parsec Observation."))
           => map' = map
       /\ (IsHandle(ret') /\ ~IsNewest(map, ret'.version))
           => PollResult(map') = PollResult(map)]_vars

C8_Witness ==
    /\ ret.op = "poll"
    /\ ret.block # None
    /\ \E e \in DOMAIN map :
           /\ ~IsNewest(map, e)
           /\ map[e].polled < Len(map[e].voted)

\* C9: every session init inserts has an epoch above all epochs present, so
\* after an insertion last_version() is the inserted epoch.
C9_EpochsStrictlyIncreasing ==
    (ret.op = "init" /\ Logged(ret, "Init new Parsec"))
        => /\ last_version(map) = ret.version
           /\ \A e \in DOMAIN map : e <= ret.version

\* C10: the registry always holds at least one session, and last_version() is
\* the maximum installed epoch.
C10_NeverEmpty ==
    /\ DOMAIN map # {}
    /\ IsNewest(map, last_version(map))

C10_Witness ==
    /\ ret.op = "poll"
    /\ Cardinality(DOMAIN map) > 1
    /\ size_counter > PARSEC_SIZE_LIMIT

\* ---- properties of the section-list cache ---------------------------------
\* every versioned form of an unversioned prefix
Versioned(p) == {[bits |-> p, version |-> v] : v \in PrefixVersions}

\* C11: starting from an empty cache, while distinct authors add signatures
\* for one list L under one prefix P with a fixed section size N,
\* get_signatures(P) is none as long as count * QUORUM_DENOMINATOR <=
\* N * QUORUM_NUMERATOR, and from the first addition that makes the count
\* exceed that, and after every later addition, it is (L, all signatures
\* added so far).
C11_QuorumMonotonic ==
    scen.state = "adding" =>
        LET sigs == signatures[scen.prefix][scen.list]
            count == Cardinality(DOMAIN sigs)
        IN  /\ count = calls
            /\ \A prefix \in Versioned(scen.prefix) :
                   get_signatures(Now, prefix) =
                       IF count * QUORUM_DENOMINATOR <= section_size * QUORUM_NUMERATOR
                       THEN None
                       ELSE Some(<<scen.list, sigs>>)

C11_Witness ==
    /\ scen.state = "adding"
    /\ LET sigs == signatures[scen.prefix][scen.list]
           count == Cardinality(DOMAIN sigs)
       IN  /\ (count - 1) * QUORUM_DENOMINATOR > section_size * QUORUM_NUMERATOR
           /\ get_signatures(Now, [bits |-> scen.prefix, version |-> 0]) =
                  Some(<<scen.list, sigs>>)

\* the lists under unversioned prefix p that hold a signature of author a
ListsSignedBy(p, a) ==
    IF p \in DOMAIN signatures
    THEN {l \in DOMAIN signatures[p] : a \in DOMAIN signatures[p][l]}
    ELSE {}

\* C12: after add_signature(P, A, L), also when A had signed another list
\* under P before, get_signature_for(P, A, L) is the new signature and
\* get_signature_for(P, A, L') is none for every other list L'; an author is
\* recorded under at most one list for a prefix at any time.
C12_AuthorExclusive ==
    /\ \A p \in Prefixes, a \in Authors : Cardinality(ListsSignedBy(p, a)) <= 1
    /\ cret.op = "add_signature" =>
           \A prefix \in Versioned(cret.prefix), l \in SectionLists :
               get_signature_for(Now, prefix, cret.author, l) \in
                   IF l = cret.list THEN {Some(sig) : sig \in Signatures} ELSE {None}

\* the cached entry for the prefix still shows the author's earlier signature
\* for the other list
C12_Witness ==
    /\ cret.op = "add_signature"
    /\ cret.list = "L2"
    /\ cret.prefix \in DOMAIN lists_cache
    /\ lists_cache[cret.prefix][1] = "L1"
    /\ cret.author \in DOMAIN lists_cache[cret.prefix][2]
    /\ ListsSignedBy(cret.prefix, cret.author) = {"L2"}

\* C13: after every mutating operation there is no prefix in signatures with
\* an empty list map, no (prefix, list) with an empty signature set, and no
\* author in signed_by with an empty prefix map.
C13_NoEmptyContainers ==
    /\ \A p \in DOMAIN signatures :
           /\ DOMAIN signatures[p] # {}
           /\ \A l \in DOMAIN signatures[p] : DOMAIN signatures[p][l] # {}
    /\ \A a \in DOMAIN signed_by : DOMAIN signed_by[a] # {}

\* remove_signatures took the last signature of the list that is still cached
\* for a prefix which keeps another list
C13_Witness ==
    /\ cret.op = "remove_signatures"
    /\ cret.author \notin DOMAIN signed_by
    /\ \E p \in DOMAIN lists_cache \cap DOMAIN signatures :
           /\ cret.author \in DOMAIN lists_cache[p][2]
           /\ lists_cache[p][1] \notin DOMAIN signatures[p]

\* some list under unversioned prefix p now holds a quorum of signatures
HasQuorumList(p) ==
    /\ p \in DOMAIN signatures
    /\ \E l \in DOMAIN signatures[p] :
           Cardinality(DOMAIN signatures[p][l]) * QUORUM_DENOMINATOR >
               section_size * QUORUM_NUMERATOR

\* C14 as stated: get_signatures(P) is some exactly when some list under P
\* currently holds a signature count satisfying the quorum predicate.
C14_SomeIffQuorum ==
    \A p \in Prefixes : \A prefix \in Versioned(p) :
        get_signatures(Now, prefix) # None <=> HasQuorumList(p)

\* C14, amended: with a fixed section size, get_signatures(P) is some whenever
\* some list under P currently holds a quorum and none whenever P has no
\* signed list; when P has signed lists but none with a quorum, it is none or
\* the entry kept from an earlier quorum.
C14_SomeWhenQuorum ==
    \A p \in Prefixes : \A prefix \in Versioned(p) :
        /\ HasQuorumList(p) => get_signatures(Now, prefix) # None
        /\ p \notin DOMAIN signatures => get_signatures(Now, prefix) = None

\* an entry is returned for a prefix none of whose lists holds a quorum
C14_Witness ==
    \E p \in DOMAIN signatures :
        /\ ~HasQuorumList(p)
        /\ get_signatures(Now, [bits |-> p, version |-> 0]) # None

\* C15: once get_signatures(P) is some it stays some across every later
\* add_signature and remove_signatures call for as long as signatures still
\* holds a signed list for P, also when no list under P has a quorum any
\* more; the entry is removed exactly when P loses all its signed lists, so
\* every prefix in lists_cache is a key of signatures.
C15_CacheKeptUntilPruned ==
    [][/\ \A p \in DOMAIN lists_cache :
              p \in DOMAIN lists_cache' <=> p \in DOMAIN signatures'
       /\ DOMAIN lists_cache' \subseteq DOMAIN signatures']_vars

\* C16: after every add_signature and every remove_signatures that finds its
\* author, every prefix P of signatures whose largest per-list signature count
\* satisfies the quorum predicate has lists_cache[P] = (L, S), where L is a
\* list with the maximum signature count under P and S is exactly the
\* signature set signatures holds for L now.
C16_CacheIsMostSigned ==
    \A p \in DOMAIN signatures :
        HasQuorumList(p) =>
            /\ p \in DOMAIN lists_cache
            /\ lists_cache[p][1] \in DOMAIN signatures[p]
            /\ \A l \in DOMAIN signatures[p] :
                   Cardinality(DOMAIN signatures[p][l]) <=
                       Cardinality(DOMAIN signatures[p][lists_cache[p][1]])
            /\ lists_cache[p][2] = signatures[p][lists_cache[p][1]]

\* a prefix has two lists, the one with a quorum is cached and the other has
\* fewer signatures
C16_Witness ==
    /\ cret.op = "add_signature"
    /\ cret.prefix \in DOMAIN lists_cache
    /\ LET lists == signatures[cret.prefix]
       IN  /\ DOMAIN lists = SectionLists
           /\ HasQuorumList(cret.prefix)
           /\ lists_cache[cret.prefix] = <<cret.list, lists[cret.list]>>
           /\ \E l \in DOMAIN lists :
                  Cardinality(DOMAIN lists[l]) < Cardinality(DOMAIN lists[cret.list])

\* the prefixes author a has signed, with the list signed for each
SignedPrefixes(a) == IF a \in DOMAIN signed_by THEN signed_by[a] ELSE <<>>

\* author a's signatures under unversioned prefix p, by list
SignaturesOf(p, a) ==
    [l \in ListsSignedBy(p, a) |-> signatures[p][l][a]]

\* C17: after add_signature(P, A, L, ...), among the prefixes compatible with
\* P (P, its ancestors and descendants) author A has, in both indices, only
\* the new signature under (P, L); A's signatures under prefixes incompatible
\* with P are unchanged; in every state the prefixes an author has signed are
\* pairwise incompatible.
C17_CompatibleRevoked ==
    [][/\ \A a \in Authors : \A p, q \in DOMAIN SignedPrefixes(a)' :
              p # q => ~is_compatible(p, q)
       /\ \A P \in Prefixes, A \in Authors, L \in SectionLists :
              cret' = CRet("add_signature", P, A, L) =>
                  \A p \in Prefixes :
                      IF is_compatible(p, P)
                      THEN /\ ListsSignedBy(p, A)' = IF p = P THEN {L} ELSE {}
                           /\ p \in DOMAIN SignedPrefixes(A)' <=> p = P
                           /\ SignedPrefixes(A)'[P] = L
                      ELSE /\ SignaturesOf(p, A)' = SignaturesOf(p, A)
                           /\ Restrict(SignedPrefixes(A), {p})' =
                                  Restrict(SignedPrefixes(A), {p})]_vars

\* the author replaced its signature for the list still cached under the
\* prefix and keeps its signature under an incompatible prefix
C17_Witness ==
    /\ cret.op = "add_signature"
    /\ Cardinality(DOMAIN SignedPrefixes(cret.author)) >= 2
    /\ cret.prefix \in DOMAIN lists_cache
    /\ cret.author \in DOMAIN lists_cache[cret.prefix][2]
    /\ lists_cache[cret.prefix][1] # cret.list
    /\ ListsSignedBy(cret.prefix, cret.author) = {cret.list}

\* C18: after remove_signatures(name, N), when an author with that name has
\* signed something, get_signature_for is none for that author under every
\* prefix and list, the author is absent from signed_by and every signature of
\* every other author is unchanged; when no current author has that name, all
\* three indices are unchanged.
C18_RemoveSignatures ==
    [][\A A \in Authors :
           cret' = CRet("remove_signatures", <<>>, A, "") =>
               IF \E a \in DOMAIN signed_by : name(a) = name(A)
               THEN /\ \A p \in Prefixes : \A prefix \in Versioned(p) :
                           \A l \in SectionLists :
                               get_signature_for(Now', prefix, A, l) = None
                    /\ A \notin DOMAIN signed_by'
                    /\ \A b \in Authors \ {A} :
                           /\ SignedPrefixes(b)' = SignedPrefixes(b)
                           /\ \A p \in Prefixes :
                                  SignaturesOf(p, b)' = SignaturesOf(p, b)
               ELSE UNCHANGED <<signatures, signed_by, lists_cache>>]_vars

\* the removed author's signature is still in a cached entry, and another
\* author keeps its signatures
C18_Witness ==
    /\ cret.op = "remove_signatures"
    /\ cret.author \notin DOMAIN signed_by
    /\ signed_by # <<>>
    /\ \E p \in DOMAIN lists_cache : cret.author \in DOMAIN lists_cache[p][2]
    /\ \A p \in Prefixes : ListsSignedBy(p, cret.author) = {}

\* C19: the two signature indices agree: author A has a signature under
\* signatures[P][L] if and only if signed_by[A][P] = L.
C19_IndicesAgree ==
    \A a \in Authors, p \in Prefixes, l \in SectionLists :
        l \in ListsSignedBy(p, a) <=>
            /\ p \in DOMAIN SignedPrefixes(a)
            /\ SignedPrefixes(a)[p] = l

\* every author has signed, one of them under two prefixes, and the prefix of
\* the last add_signature has both lists
C19_Witness ==
    /\ cret.op = "add_signature"
    /\ DOMAIN signed_by = Authors
    /\ \E a \in Authors : Cardinality(DOMAIN signed_by[a]) = 2
    /\ DOMAIN signatures[cret.prefix] = SectionLists

\* C20: with one section size N passed to every call, every entry (L, S) of
\* lists_cache has |S| * QUORUM_DENOMINATOR > N * QUORUM_NUMERATOR, also when
\* the signature set signatures holds for L has shrunk below a quorum.
C20_CachedSetIsQuorum ==
    \A p \in DOMAIN lists_cache :
        Cardinality(DOMAIN lists_cache[p][2]) * QUORUM_DENOMINATOR >
            section_size * QUORUM_NUMERATOR

\* the cached list is still signed, by fewer authors than a quorum
C20_Witness ==
    \E p \in DOMAIN lists_cache :
        /\ lists_cache[p][1] \in DOMAIN signatures[p]
        /\ Cardinality(DOMAIN signatures[p][lists_cache[p][1]]) * QUORUM_DENOMINATOR
               <= section_size * QUORUM_NUMERATOR
        /\ DOMAIN signatures[p][lists_cache[p][1]] # DOMAIN lists_cache[p][2]

\* the lists under unversioned prefix p that now hold a quorum of signatures
QuorumLists(p) ==
    {l \in DOMAIN signatures[p] :
         Cardinality(DOMAIN signatures[p][l]) * QUORUM_DENOMINATOR >
             section_size * QUORUM_NUMERATOR}

\* for every fraction q/d of at least 1/2 and every section size n, two
\* signature counts that both exceed the fraction of n add up to more than n
TwoQuorumsExceedSection ==
    \A q \in 1..(MaxAuthor + 1), d \in 1..(MaxAuthor + 1) :
        2 * q >= d =>
            \A n \in 0..(MaxAuthor + 1) : \A c1 \in 0..n, c2 \in 0..n :
                (c1 * d > n * q /\ c2 * d > n * q) => c1 + c2 > n

\* C21: when at most N distinct authors have ever signed (N the section size)
\* and the quorum fraction is at least 1/2, at most one list per prefix holds
\* a quorum, so whenever update_lists_cache writes an entry the list that
\* sorts first is the only candidate: the tie-break among equally signed
\* lists never decides what is cached.
C21_TieBreakNeverDecides ==
    /\ 2 * QUORUM_NUMERATOR >= QUORUM_DENOMINATOR
    /\ TwoQuorumsExceedSection
    /\ Cardinality(signers) <= section_size =>
           \A p \in DOMAIN signatures :
               /\ Cardinality(QuorumLists(p)) <= 1
               /\ QuorumLists(p) # {} => most_signed(signatures[p]) = QuorumLists(p)

\* no more authors than members have signed, one prefix has a list with a
\* quorum and another prefix has two equally signed lists
C21_Witness ==
    /\ signers # {}
    /\ Cardinality(signers) <= section_size
    /\ \E p \in DOMAIN signatures : Cardinality(most_signed(signatures[p])) = 2
    /\ \E p \in DOMAIN signatures :
           /\ QuorumLists(p) # {}
           /\ p \in DOMAIN lists_cache
           /\ lists_cache[p][1] \in QuorumLists(p)

\* ---- properties of the registry, continued --------------------------------
\* C22: no registry operation removes a session: over init, handle_request,
\* handle_response, create_gossip, vote_for and poll the set of installed
\* epochs only grows and last_version() never decreases; create_gossip leaves
\* the set of epochs and the size counter unchanged and, when it returns a
\* message, the message is a request tagged with the requested epoch.
C22_NoSessionRemoved ==
    [][/\ DOMAIN map \subseteq DOMAIN map'
       /\ last_version(map') >= last_version(map)
       /\ ret'.op = "create_gossip" =>
              /\ DOMAIN map' = DOMAIN map
              /\ size_counter' = size_counter
              /\ ret'.response # None =>
                     /\ ret'.response[1].type = "ParsecRequest"
                     /\ ret'.response[1].version = ret'.version]_vars

\* create_gossip returned a message for an older epoch, with traffic counted
C22_Witness ==
    /\ ret.op = "create_gossip"
    /\ ret.response # None
    /\ ret.response[1].version = ret.version
    /\ ret.version \in DOMAIN map
    /\ ~IsNewest(map, ret.version)
    /\ size_counter > 0

====
